---- MODULE Spec2Model ----
(***************************************************************************)
(* A model of the out-of-core POD / DMD / mrDMD pipeline of                *)
(* src/src/PARAMOUNT.py (classes Base, POD, DMD).                          *)
(*                                                                         *)
(* Storage is a map from paths to artifacts.  A matrix is a record         *)
(* [rows, cols]: its row count and the values of one representative row,   *)
(* one per column; every matrix operation of the pipeline that the model   *)
(* follows by value is element-wise or column-wise (slice, stride,         *)
(* concatenation, subtraction, sum), so rows behave alike.                 *)
(*                                                                         *)
(* Factorisations are kept by content: the artifacts u, v and s hold the   *)
(* matrix they factor, Atilde holds the factors and the shifted matrix it  *)
(* was built from.  An eigenvalue is a pair <<j, w>>: the index j of the   *)
(* mode and its frequency w = FreqScale * |omega| * dt / (2 pi), which the *)
(* eigen-solver picks from Freqs.  An amplitude is a pair <<j, x0>>: the   *)
(* index of the mode and the initial value the fit was made to.            *)
(***************************************************************************)
EXTENDS Integers, Sequences, FiniteSets, TLC

VARIABLES
    data,       \* [Vars -> matrix]: the parquet dataset {path_parquet}/{var}
    cfg,        \* instance state: data_cutoff, data_cutin, data_skip, dt, t0
    fs,         \* [Paths -> <<>> or <<artifact>>]: {dir}/{var}/{name}
    lp,         \* [level, var -> <<>> or <<matrix>>]: level_{L}/{var}/level_prediction
    leveldirs,  \* the levels L whose directory level_{L} exists
    mr,         \* the frame of the running multires call
    st,         \* the frame of the running stage call
    roots,      \* path_pod and path_dmd the caller passes to the stage calls
    calls,      \* the top-level calls made so far (stage calls: the latest by name)
    err,        \* the exception that ended the last call, "" when none
    an,         \* the frame and result of the running analysis helper
    coords      \* [place -> the coordinate side-files x.pkl, y.pkl, z.pkl it holds]

vars == <<data, cfg, fs, lp, leveldirs, mr, st, roots, calls, err, an, coords>>

-----------------------------------------------------------------------------
(* Bounds of the model *)

MinCols == 2
MaxCols == 6
MaxEnd == 6
MaxLevels == 2
NumRows == 2

(* FreqScale frequency units make one cycle per snapshot;                  *)
(* np.abs(omega) < rho * 2 * np.pi with rho = 1 / (dt * slice_size)        *)
(* reads  w * slice_size < FreqScale.                                      *)
FreqScale == 4

Vars == {"p", "q"}
VarLists == {<<"p">>, <<"p", "q">>}
Freqs == {0, FreqScale \div 2}

None == <<>>
Some(x) == <<x>>
Min(a, b) == IF a < b THEN a ELSE b
Max(a, b) == IF a > b THEN a ELSE b

RECURSIVE Pow2(_)
Pow2(n) == IF n = 0 THEN 1 ELSE 2 * Pow2(n - 1)

\* Python's a % b for b > 0: the result has the sign of b.
PyMod(a, b) == a % b

-----------------------------------------------------------------------------
(* Column operations on matrices *)

Matrix(r, c) == [rows |-> r, cols |-> c]
NCols(m) == Len(m.cols)

\* s[a:b] for 0 <= a, with Python's clamping of b (b < 0 counts from the end).
PySlice(s, a, b) ==
    LET stop == IF b < 0 THEN Max(Len(s) + b, 0) ELSE Min(b, Len(s))
    IN  IF a >= stop THEN <<>> ELSE SubSeq(s, a + 1, stop)

\* s[::k] for k >= 1.
\* a stride that starts at the k-th element instead of the first
PyStride_from_kth(s, k) == [i \in 1..(Len(s) \div k) |-> s[i * k]]
PyStride(s, k) == [i \in 1..((Len(s) + k - 1) \div k) |-> s[(i - 1) * k + 1]]

\* df.iloc[:, a:b]
ILoc(m, a, b) == Matrix(m.rows, PySlice(m.cols, a, b))

RECURSIVE ConcatAll(_)
ConcatAll(ss) == IF ss = <<>> THEN <<>> ELSE Head(ss) \o ConcatAll(Tail(ss))

\* element-wise a - b and a + b of two rows of one length
RowSub(a, b) == [i \in 1..Len(a) |-> a[i] - b[i]]
RowAdd(a, b) == [i \in 1..Len(a) |-> a[i] + b[i]]

\* The value of variable v at column c (0-based) of its dataset.
DataVal(v, c) == IF v = "p" THEN c + 1 ELSE 10 * (c + 2)

data_decimate(df, X1, X2) ==
    LET c0 == df.cols
        c1 == IF cfg.data_cutoff # None
              THEN PySlice(c0, 0, (Len(c0) * cfg.data_cutoff[1]) \div 100)
              ELSE c0
        c2 == IF cfg.data_cutin # None
              THEN PySlice(c1, (Len(c1) * cfg.data_cutin[1]) \div 100, Len(c1))
              ELSE c1
        c3 == IF cfg.data_skip # None THEN PyStride(c2, cfg.data_skip[1]) ELSE c2
        c4 == IF X1 THEN PySlice(c3, 0, -1) ELSE c3
        c5 == IF X2 THEN PySlice(c4, 1, Len(c4)) ELSE c4
    IN  Matrix(df.rows, c5)

-----------------------------------------------------------------------------
(* Storage *)

\* A results directory: level_{L}/{i} of a multires run, or a flat results root.
SegDir(L, i) == <<"level", L, i>>
SegDirs == {SegDir(L, i) : L \in 0..(MaxLevels - 1), i \in 0..(Pow2(MaxLevels - 1) - 1)}
PodRoot == <<".usv", 0, 0>>
DmdRoot == <<".dmd", 0, 0>>
FlatDirs == {PodRoot, DmdRoot}
\* path_mrdmd itself, where multires_predict writes {var}/prediction
MrRoot == <<".mrdmd", 0, 0>>
Dirs == SegDirs \cup FlatDirs \cup {MrRoot}
Names == {"u", "v", "s", "Atilde", "modes_real", "modes_imag",
          "modes_real_2", "modes_imag_2", "b", "lambda", "prediction"}

Has(d, v, n) == fs[d][v][n] # None
Get(d, v, n) == fs[d][v][n][1]
\* utils.loadit of a pickle: a missing file is a NotFound error, a present
\* one is read back as it was saved
loadit_found(d, v, n) == Has(d, v, n)
Put(f, d, v, n, x) == [f EXCEPT ![d][v][n] = Some(x)]
Del(f, d, v, n) == [f EXCEPT ![d][v][n] = None]
EmptyDir == [v \in Vars |-> [n \in Names |-> None]]

\* path_parquet, the place the coordinate side-files come from
DataDir == <<".data", 0, 0>>
CoordNames == <<"x", "y", "z">>
NoCoords == [d \in Dirs \cup {DataDir} |-> {}]
\* svd_save_usv and save_Atilde: shutil.copy of x.pkl, y.pkl and z.pkl from
\* path_parquet to the results path inside one try / except: pass; the first missing file ends the
\* copies and is not reported
CopyCoords(c, path) ==
    LET first_missing ==
            IF \A k \in 1..Len(CoordNames) : CoordNames[k] \in c[DataDir]
            THEN Len(CoordNames) + 1
            ELSE CHOOSE k \in 1..Len(CoordNames) :
                    /\ CoordNames[k] \notin c[DataDir]
                    /\ \A h \in 1..(k - 1) : CoordNames[h] \in c[DataDir]
    IN  [c EXCEPT ![path] = @ \cup {CoordNames[k] : k \in 1..(first_missing - 1)}]

\* one singular triplet per spatial point, whatever the column count
Rank_is_rows(m) == m.rows
\* The number of modes of a factorisation of m: da.linalg.svd gives
\* min(rows, columns) singular triplets.
Rank(m) == Min(m.rows, NCols(m))


-----------------------------------------------------------------------------
(* Frames *)

IdleSt == [op |-> "none", asked |-> <<>>, vars |-> <<>>, idx |-> 0, pc |-> "", pod |-> SegDir(0, 0),
           dmd |-> SegDir(0, 0), in_mem |-> None, X1 |-> FALSE, end |-> None,
           end_arg |-> None,
           frame_skip |-> 1, proj |-> TRUE, lam |-> <<>>, phi |-> None, memo |-> None]

\* no analysis helper has run
IdleAn == [op |-> "none"]

IdleMr == [active |-> FALSE, vars |-> <<>>, levels |-> 0, end |-> None, vi |-> 0,
           level |-> 0, i |-> 0, pc |-> "", df |-> Matrix(0, <<>>), slice_size |-> 0,
           eigs |-> <<>>, mask |-> <<>>]

\* An exception leaves every frame: no loop of the pipeline catches it.
Raise(e) == /\ st' = IdleSt
            /\ mr' = IdleMr
            /\ err' = e

StVar == st.vars[st.idx]
\* df of the stage: in_memory_df, or the dataset of the variable
StDf == IF st.in_mem # None THEN st.in_mem[1] ELSE data[StVar]

\* the per-variable loop of a stage goes to its next variable, or the stage returns
StNext(first_pc) ==
    IF st.idx < Len(st.vars)
    THEN [st EXCEPT !.idx = st.idx + 1, !.pc = first_pc]
    ELSE IdleSt

-----------------------------------------------------------------------------
(* POD.svd_save_usv: for each variable, the factors u, v and s of the      *)
(* decimated matrix are written one after the other.                       *)

\* the matrix svd_save_usv factors for the current variable
SvdInput == data_decimate(StDf, st.X1, FALSE)

\* df[:, :: self.data_skip] has no df.iloc fall-back: svd_save_usv hands
\* data_decimate a dask DataFrame, which takes the key for a column label
\* and raises; the exception class depends on the installed pandas
FrameStrideErrors == {"InvalidIndexError", "KeyError"}
FrameStrideFails == cfg.data_skip # None

svd_decimate_fail ==
    /\ st.op = "svd" /\ st.pc = "u"
    /\ FrameStrideFails
    /\ \E e \in FrameStrideErrors : Raise(e)
    /\ UNCHANGED <<coords, an, data, cfg, roots, fs, lp, leveldirs, calls>>

svd_write_u ==
    /\ st.op = "svd" /\ st.pc = "u"
    /\ ~FrameStrideFails
    /\ fs' = Put(fs, st.pod, StVar, "u", [of |-> SvdInput])
    /\ st' = [st EXCEPT !.pc = "v"]
    /\ UNCHANGED <<coords, an, data, cfg, roots, lp, leveldirs, mr, calls, err>>

\* da.linalg.svd of a matrix without columns: the outcome depends on the
\* installed dask and numpy; it either raises here or goes on (svd_write_u)
\* with no singular triplet.
svd_fail ==
    /\ st.op = "svd" /\ st.pc = "u"
    /\ ~FrameStrideFails
    /\ NCols(SvdInput) = 0
    /\ Raise("LinAlgError")
    /\ UNCHANGED <<coords, an, data, cfg, roots, fs, lp, leveldirs, calls>>

svd_write_v ==
    /\ st.op = "svd" /\ st.pc = "v"
    /\ fs' = Put(fs, st.pod, StVar, "v", [of |-> SvdInput])
    /\ st' = [st EXCEPT !.pc = "s"]
    /\ UNCHANGED <<coords, an, data, cfg, roots, lp, leveldirs, mr, calls, err>>

svd_write_s ==
    /\ st.op = "svd" /\ st.pc = "s"
    /\ fs' = Put(fs, st.pod, StVar, "s", [of |-> SvdInput])
    /\ st' = StNext("u")
    /\ UNCHANGED <<coords, an, data, cfg, roots, lp, leveldirs, mr, calls, err>>

-----------------------------------------------------------------------------
(* DMD.save_Atilde *)

\* Atilde = u^T . X2 . v^T . diag(1/s): the shapes must chain.
AtildeShapesOk(u, s, v, x2) ==
    /\ u.of.rows = x2.rows
    /\ NCols(x2) = NCols(v.of)
    /\ Rank(v.of) = Rank(s.of)

save_Atilde_var ==
    /\ st.op = "Atilde"
    /\ LET var == StVar
           df2 == data_decimate(StDf, FALSE, TRUE)
           ok  == /\ Has(st.pod, var, "u") /\ loadit_found(st.pod, var, "s")
                  /\ Has(st.pod, var, "v")
       IN  IF ~ok
           THEN Raise("NotFound") /\ UNCHANGED fs
           ELSE LET u == Get(st.pod, var, "u")
                    s == Get(st.pod, var, "s")
                    v == Get(st.pod, var, "v")
                IN  IF ~AtildeShapesOk(u, s, v, df2)
                    THEN Raise("ValueError") /\ UNCHANGED fs
                    ELSE /\ fs' = Put(fs, st.dmd, var, "Atilde",
                                      [u |-> u.of, s |-> s.of, v |-> v.of, x2 |-> df2])
                         /\ st' = StNext("")
                         /\ UNCHANGED <<mr, err>>
    /\ UNCHANGED <<coords, an, data, cfg, roots, lp, leveldirs, calls>>

-----------------------------------------------------------------------------
(* DMD.save_modes: per variable modes_real, modes_imag, b.pkl and          *)
(* lambda.pkl are written one after the other.                             *)

\* The spectra np.linalg.eig may return for a k x k operator: eigenvalue j
\* of frequency w is <<j, w>>.
Spectra(k) == {[j \in 1..k |-> <<j, f[j]>>] : f \in [1..k -> Freqs]}

\* np.linalg.eig is a function of its argument: within one call the same
\* operator gets the same spectrum.
EigChoices(A) ==
    IF st.memo # None /\ st.memo[1][1] = A
    THEN {st.memo[1][2]}
    ELSE Spectra(Rank(A.u))

save_modes_real ==
    /\ st.op = "modes" /\ st.pc = "modes_real"
    /\ LET var == StVar
           df2 == data_decimate(StDf, FALSE, TRUE)
       IN  IF ~loadit_found(st.dmd, var, "Atilde")
           THEN Raise("NotFound") /\ UNCHANGED fs
           ELSE LET A == Get(st.dmd, var, "Atilde") IN
                IF Rank(A.u) # Rank(A.s)
                THEN Raise("LinAlgError") /\ UNCHANGED fs
                ELSE IF ~(Has(st.pod, var, "u") /\ Has(st.pod, var, "v"))
                THEN Raise("NotFound") /\ UNCHANGED fs
                ELSE LET u == Get(st.pod, var, "u")
                         v == Get(st.pod, var, "v")
                         k == Rank(A.u)
                     IN
                     IF st.proj
                     THEN IF Rank(u.of) # k
                          THEN Raise("ValueError") /\ UNCHANGED fs
                          ELSE \E lam \in EigChoices(A) :
                               LET phi == [rows |-> u.of.rows,
                                           cols |-> [j \in 1..k |-> j],
                                           of |-> <<u.of, A>>]
                               IN  /\ fs' = Put(fs, st.dmd, var, "modes_real", phi)
                                   /\ st' = [st EXCEPT !.pc = "modes_imag", !.lam = lam,
                                                       !.phi = Some(phi),
                                                       !.memo = Some(<<A, lam>>)]
                                   /\ UNCHANGED <<mr, err>>
                     ELSE IF ~loadit_found(st.pod, var, "s")
                          THEN Raise("NotFound") /\ UNCHANGED fs
                          ELSE LET sv == Get(st.pod, var, "s") IN
                               IF \/ NCols(df2) # NCols(v.of)
                                  \/ Rank(v.of) # Rank(sv.of)
                                  \/ Rank(sv.of) # k
                                  \/ Rank(u.of) # k
                               THEN Raise("ValueError") /\ UNCHANGED fs
                               ELSE \E lam \in EigChoices(A) :
                                    LET phi == [rows |-> df2.rows,
                                                cols |-> [j \in 1..k |-> j],
                                                of |-> <<df2, v.of, sv.of, A>>]
                                    IN  /\ fs' = Put(fs, st.dmd, var, "modes_real", phi)
                                        /\ st' = [st EXCEPT !.pc = "modes_imag",
                                                            !.lam = lam,
                                                            !.phi = Some(phi),
                                                            !.memo = Some(<<A, lam>>)]
                                        /\ UNCHANGED <<mr, err>>
    /\ UNCHANGED <<coords, an, data, cfg, roots, lp, leveldirs, calls>>

save_modes_imag ==
    /\ st.op = "modes" /\ st.pc = "modes_imag"
    /\ fs' = Put(fs, st.dmd, StVar, "modes_imag", st.phi[1])
    /\ st' = [st EXCEPT !.pc = "b"]
    /\ UNCHANGED <<coords, an, data, cfg, roots, lp, leveldirs, mr, calls, err>>

\* b = lstsq(phi, init) with init = df[:, 0], column 0 of the matrix the
\* stage was given: amplitude j is <<j, x0>>.
Amplitudes(phi, x0) == [j \in 1..Len(phi.cols) |-> <<phi.cols[j], x0>>]

\* the first column of the decimated matrix instead of the given one
InitColumn_of_decimated(df) ==
    LET d == data_decimate(df, FALSE, FALSE)
    IN  IF NCols(d) = 0 THEN df.cols[1] ELSE d.cols[1]
\* init = df[:, 0]
InitColumn(df) == df.cols[1]

save_modes_b ==
    /\ st.op = "modes" /\ st.pc = "b"
    /\ IF NCols(StDf) = 0
       THEN Raise("IndexError") /\ UNCHANGED fs
       ELSE /\ fs' = Put(fs, st.dmd, StVar, "b", Amplitudes(st.phi[1], InitColumn(StDf)))
            /\ st' = [st EXCEPT !.pc = "lambda"]
            /\ UNCHANGED <<mr, err>>
    /\ UNCHANGED <<coords, an, data, cfg, roots, lp, leveldirs, calls>>

save_modes_lambda ==
    /\ st.op = "modes" /\ st.pc = "lambda"
    /\ fs' = Put(fs, st.dmd, StVar, "lambda", st.lam)
    /\ st' = StNext("modes_real")
    /\ UNCHANGED <<coords, an, data, cfg, roots, lp, leveldirs, mr, calls, err>>

-----------------------------------------------------------------------------
(* DMD.save_prediction *)

\* Re(exp(omega * t)) of a mode of frequency w at the time of snapshot t:
\* cos(2 pi w t / FreqScale), for the quarter-cycle frequencies of the model.
Osc(w, t) ==
    LET phase == (w * t) % FreqScale
    IN  IF phase = 0 THEN 1 ELSE IF 2 * phase = FreqScale THEN -1 ELSE 0

RECURSIVE SumSeq(_)
SumSeq(q) == IF q = <<>> THEN 0 ELSE Head(q) + SumSeq(Tail(q))

\* one time per frame below end, whatever the frame_skip
TimeCount_is_end(end, frame_skip) == IF end <= 0 THEN 0 ELSE end
\* len(np.arange(0, end, frame_skip))
TimeCount(end, frame_skip) ==
    IF end <= 0 THEN 0 ELSE (end + frame_skip - 1) \div frame_skip

\* prediction = Re(phi . dynamics), dynamics[:, i] = b * exp(omega * t_i),
\* t_i = i * frame_skip * dt
Predict(rows, b, eigs, end, frame_skip) ==
    Matrix(rows,
           [c \in 1..TimeCount(end, frame_skip) |->
               SumSeq([j \in 1..Len(b) |->
                          b[j][2] * Osc(eigs[IF Len(eigs) = 1 THEN 1 ELSE j][2],
                                        (c - 1) * frame_skip)])])

\* the column labels of phi_real + 1j * phi_imag (frames align on labels)
PhiLabels(re, im) == {re.cols[j] : j \in 1..Len(re.cols)}
                         \cup {im.cols[j] : j \in 1..Len(im.cols)}

\* the slip of creating the output table before the inputs are loaded
prediction_not_found_after_write(var) ==
    /\ Raise("NotFound")
    /\ fs' = Put(fs, st.dmd, var, "prediction", Matrix(0, <<>>))

\* utils.loadit / dd.read_parquet of a missing input raises before anything
\* is written
prediction_not_found(var) == Raise("NotFound") /\ UNCHANGED fs

save_prediction_var ==
    /\ st.op = "prediction"
    /\ LET var == StVar
           ok  == /\ loadit_found(st.dmd, var, "b")
                  /\ loadit_found(st.dmd, var, "lambda")
                  /\ Has(st.dmd, var, "modes_real") /\ Has(st.dmd, var, "modes_imag")
       IN  IF ~ok
           THEN prediction_not_found(var)
           ELSE LET b    == Get(st.dmd, var, "b")
                    eigs == Get(st.dmd, var, "lambda")
                    re   == Get(st.dmd, var, "modes_real")
                    im   == Get(st.dmd, var, "modes_imag")
                    nphi == Cardinality(PhiLabels(re, im))
                    end  == IF st.end = None THEN nphi ELSE st.end[1]
                    T    == TimeCount(end, st.frame_skip)
                IN  IF \/ T > 0 /\ Len(eigs) # Len(b) /\ Len(eigs) # 1
                       \/ nphi # Len(b)
                    THEN Raise("ValueError") /\ UNCHANGED fs
                    ELSE /\ fs' = Put(fs, st.dmd, var, "prediction",
                                      Predict(re.rows, b, eigs, end, st.frame_skip))
                         /\ st' = [StNext("") EXCEPT !.end =
                                       IF st.idx < Len(st.vars) THEN Some(end) ELSE None]
                         /\ UNCHANGED <<mr, err>>
    /\ UNCHANGED <<coords, an, data, cfg, roots, lp, leveldirs, calls>>

-----------------------------------------------------------------------------
(* DMD.multires *)

MrVar == mr.vars[mr.vi]
MrDir == SegDir(mr.level, mr.i)
\* dfs[i] = df.iloc[:, i * slice_size : (i + 1) * slice_size]
Segment(df, i, slice_size) == ILoc(df, i * slice_size, (i + 1) * slice_size)
\* the slip of cutting at end itself
Truncate_at_end(df, end, levels) == ILoc(df, 0, end)

\* df.iloc[:, : end - end % 2**levels]
Truncate(df, end, levels) == ILoc(df, 0, end - PyMod(end, Pow2(levels)))
\* np.abs(omega) < rho * 2 * np.pi, rho = 1 / (dt * slice_size)
IsSlow(eig, slice_size) == eig[2] * slice_size < FreqScale
\* np.where(...)[0]: the positions of the slow eigenvalues, in order
SlowMask(eigs, slice_size) ==
    SelectSeq([j \in 1..Len(eigs) |-> j], LAMBDA j : IsSlow(eigs[j], slice_size))
\* the first len(mask) entries instead of the entries at mask
Take_leading(a, mask) == SubSeq(a, 1, Len(mask))
\* a[mask]
Take(a, mask) == [j \in 1..Len(mask) |-> a[mask[j]]]
MaskFits(a, mask) == \A j \in 1..Len(mask) : mask[j] <= Len(a)

StCall(op, in_mem, X1, end) ==
    [IdleSt EXCEPT !.op = op, !.asked = mr.vars, !.vars = mr.vars, !.idx = 1,
                   !.pc = IF op = "svd" THEN "u"
                          ELSE IF op = "modes" THEN "modes_real" ELSE "",
                   !.pod = MrDir, !.dmd = MrDir, !.in_mem = in_mem,
                   !.X1 = X1, !.end = end, !.end_arg = end]

multires_var ==
    /\ mr.active /\ mr.pc = "var"
    /\ leveldirs' = leveldirs \cup 0..(mr.levels - 1)
    /\ IF mr.end = None
       THEN Raise("TypeError")
       ELSE /\ mr' = [mr EXCEPT !.df = Truncate(data[MrVar], mr.end[1], mr.levels),
                                !.level = 0, !.pc = "level"]
            /\ UNCHANGED <<st, err>>
    /\ UNCHANGED <<coords, an, data, cfg, roots, fs, lp, calls>>

multires_level ==
    /\ mr.active /\ mr.pc = "level"
    /\ IF mr.level > 0 /\ lp[mr.level - 1][MrVar] = None
       THEN Raise("NotFound")
       ELSE LET df == IF mr.level > 0 THEN lp[mr.level - 1][MrVar][1] ELSE mr.df
            IN  /\ mr' = [mr EXCEPT !.df = df, !.i = 0, !.pc = "svd",
                                    !.slice_size = NCols(df) \div Pow2(mr.level)]
                /\ UNCHANGED <<st, err>>
    /\ UNCHANGED <<coords, an, data, cfg, roots, fs, lp, leveldirs, calls>>

multires_call_svd ==
    /\ mr.active /\ mr.pc = "svd" /\ st.op = "none"
    /\ st' = StCall("svd", Some(Segment(mr.df, mr.i, mr.slice_size)), TRUE, None)
    /\ mr' = [mr EXCEPT !.pc = "Atilde"]
    /\ coords' = CopyCoords(coords, MrDir)
    /\ UNCHANGED <<an, data, cfg, roots, fs, lp, leveldirs, calls, err>>

multires_call_Atilde ==
    /\ mr.active /\ mr.pc = "Atilde" /\ st.op = "none"
    /\ st' = StCall("Atilde", Some(Segment(mr.df, mr.i, mr.slice_size)), FALSE, None)
    /\ mr' = [mr EXCEPT !.pc = "modes"]
    /\ coords' = CopyCoords(coords, MrDir)
    /\ UNCHANGED <<an, data, cfg, roots, fs, lp, leveldirs, calls, err>>

multires_call_modes ==
    /\ mr.active /\ mr.pc = "modes" /\ st.op = "none"
    /\ st' = StCall("modes", Some(Segment(mr.df, mr.i, mr.slice_size)), FALSE, None)
    /\ mr' = [mr EXCEPT !.pc = "filter_b"]
    /\ UNCHANGED <<coords, an, data, cfg, roots, fs, lp, leveldirs, calls, err>>

\* eigs and b are loaded, and b.pkl is replaced by b[slow_mask]
multires_filter_b ==
    /\ mr.active /\ mr.pc = "filter_b" /\ st.op = "none"
    /\ IF ~(loadit_found(MrDir, MrVar, "lambda") /\ loadit_found(MrDir, MrVar, "b"))
       THEN Raise("NotFound") /\ UNCHANGED fs
       ELSE LET eigs == Get(MrDir, MrVar, "lambda")
                mask == SlowMask(eigs, mr.slice_size)
                b    == Get(MrDir, MrVar, "b")
            IN  IF ~MaskFits(b, mask)
                THEN Raise("IndexError") /\ UNCHANGED fs
                ELSE /\ fs' = Put(fs, MrDir, MrVar, "b", Take(b, mask))
                     /\ mr' = [mr EXCEPT !.eigs = eigs, !.mask = mask,
                                         !.pc = "filter_lambda"]
                     /\ UNCHANGED <<st, err>>
    /\ UNCHANGED <<coords, an, data, cfg, roots, lp, leveldirs, calls>>

multires_filter_lambda ==
    /\ mr.active /\ mr.pc = "filter_lambda"
    /\ fs' = Put(fs, MrDir, MrVar, "lambda", Take(mr.eigs, mr.mask))
    /\ mr' = [mr EXCEPT !.pc = "real_2"]
    /\ UNCHANGED <<coords, an, data, cfg, roots, lp, leveldirs, st, calls, err>>

\* phi.iloc[:, slow_mask] written beside the table it was read from
multires_write_2(pc, name, next) ==
    /\ mr.active /\ mr.pc = pc
    /\ IF ~Has(MrDir, MrVar, name)
       THEN Raise("NotFound") /\ UNCHANGED fs
       ELSE LET phi == Get(MrDir, MrVar, name)
            IN  IF ~MaskFits(phi.cols, mr.mask)
                THEN Raise("IndexError") /\ UNCHANGED fs
                ELSE /\ fs' = Put(fs, MrDir, MrVar, name \o "_2",
                                  [phi EXCEPT !.cols = Take(phi.cols, mr.mask)])
                     /\ mr' = [mr EXCEPT !.pc = next]
                     /\ UNCHANGED <<st, err>>
    /\ UNCHANGED <<coords, an, data, cfg, roots, lp, leveldirs, calls>>

multires_write_real_2 == multires_write_2("real_2", "modes_real", "imag_2")
multires_write_imag_2 == multires_write_2("imag_2", "modes_imag", "rm_real")

\* shutil.rmtree
multires_rm(pc, name, next) ==
    /\ mr.active /\ mr.pc = pc
    /\ IF ~Has(MrDir, MrVar, name)
       THEN Raise("NotFound") /\ UNCHANGED fs
       ELSE /\ fs' = Del(fs, MrDir, MrVar, name)
            /\ mr' = [mr EXCEPT !.pc = next]
            /\ UNCHANGED <<st, err>>
    /\ UNCHANGED <<coords, an, data, cfg, roots, lp, leveldirs, calls>>

multires_rm_real == multires_rm("rm_real", "modes_real", "rm_imag")
multires_rm_imag == multires_rm("rm_imag", "modes_imag", "mv_real")

\* shutil.move(src, dst) with dst removed before
multires_mv(pc, name, next) ==
    /\ mr.active /\ mr.pc = pc
    /\ IF ~Has(MrDir, MrVar, name \o "_2")
       THEN Raise("NotFound") /\ UNCHANGED fs
       ELSE /\ fs' = Del(Put(fs, MrDir, MrVar, name, Get(MrDir, MrVar, name \o "_2")),
                         MrDir, MrVar, name \o "_2")
            /\ mr' = [mr EXCEPT !.pc = next]
            /\ UNCHANGED <<st, err>>
    /\ UNCHANGED <<coords, an, data, cfg, roots, lp, leveldirs, calls>>

multires_mv_real == multires_mv("mv_real", "modes_real", "mv_imag")
multires_mv_imag == multires_mv("mv_imag", "modes_imag", "prediction")

multires_call_prediction ==
    /\ mr.active /\ mr.pc = "prediction" /\ st.op = "none"
    /\ st' = StCall("prediction", None, FALSE, Some(mr.slice_size))
    /\ mr' = [mr EXCEPT !.pc = "next"]
    /\ UNCHANGED <<coords, an, data, cfg, roots, fs, lp, leveldirs, calls, err>>

multires_next_segment ==
    /\ mr.active /\ mr.pc = "next" /\ st.op = "none"
    /\ mr.i + 1 < Pow2(mr.level)
    /\ mr' = [mr EXCEPT !.i = mr.i + 1, !.pc = "svd"]
    /\ UNCHANGED <<coords, an, data, cfg, roots, fs, lp, leveldirs, st, calls, err>>

\* df_new: the predictions of the level's segments, side by side
LevelConcat(level, var) ==
    ConcatAll([j \in 1..Pow2(level) |-> Get(SegDir(level, j - 1), var, "prediction").cols])

\* df -= df_new
Residual(df, df_new) == Matrix(df.rows, RowSub(df.cols, df_new))

\* the slip of persisting df_new in place of df
LevelPrediction_persists_df_new(df, df_new) == Matrix(df.rows, df_new)

\* what df.to_parquet(level_{L}/{var}/level_prediction) persists
LevelPrediction(df, df_new) == Residual(df, df_new)

multires_level_end ==
    /\ mr.active /\ mr.pc = "next" /\ st.op = "none"
    /\ mr.i + 1 = Pow2(mr.level)
    /\ IF \E j \in 0..(Pow2(mr.level) - 1) : ~Has(SegDir(mr.level, j), MrVar, "prediction")
       THEN Raise("NotFound") /\ UNCHANGED lp
       ELSE LET df_new == LevelConcat(mr.level, MrVar) IN
            IF Len(df_new) # NCols(mr.df)
            THEN Raise("ValueError") /\ UNCHANGED lp
            ELSE /\ lp' = [lp EXCEPT ![mr.level][MrVar] =
                                Some(LevelPrediction(mr.df, df_new))]
                 /\ mr' = IF mr.level + 1 < mr.levels
                          THEN [mr EXCEPT !.df = Residual(mr.df, df_new),
                                          !.level = mr.level + 1, !.pc = "level"]
                          ELSE IF mr.vi < Len(mr.vars)
                          THEN [mr EXCEPT !.df = Residual(mr.df, df_new),
                                          !.vi = mr.vi + 1, !.pc = "var"]
                          ELSE IdleMr
                 /\ UNCHANGED <<st, err>>
    /\ UNCHANGED <<coords, an, data, cfg, roots, fs, leveldirs, calls>>

\* A worker error or a cancellation at a materialisation point ends the call.
Interrupt ==
    /\ mr.active \/ st.op # "none"
    /\ Raise("Interrupted")
    /\ UNCHANGED <<coords, an, data, cfg, roots, fs, lp, leveldirs, calls>>

-----------------------------------------------------------------------------
(* One multires call on empty storage *)

NoCfg == [data_cutoff |-> None, data_cutin |-> None, data_skip |-> None,
          dt |-> None, t0 |-> None]
Dataset(v, n) == Matrix(NumRows, [c \in 1..n |-> DataVal(v, c - 1)])
Ends == {None} \cup {Some(e) : e \in 0..MaxEnd}

Init ==
    /\ \E n \in MinCols..MaxCols : data = [v \in Vars |-> Dataset(v, n)]
    /\ cfg = NoCfg
    /\ fs = [d \in Dirs |-> EmptyDir]
    /\ lp = [L \in 0..(MaxLevels - 1) |-> [v \in Vars |-> None]]
    /\ leveldirs = {}
    /\ \E vs \in VarLists, levels \in 1..MaxLevels, end \in Ends :
          /\ mr = [IdleMr EXCEPT !.active = TRUE, !.vars = vs, !.levels = levels,
                                 !.end = end, !.vi = 1, !.pc = "var"]
          /\ calls = <<[op |-> "multires", vars |-> vs, levels |-> levels, end |-> end]>>
    /\ st = IdleSt
    /\ roots = [pod |-> PodRoot, dmd |-> DmdRoot]
    /\ err = ""
    /\ an = IdleAn
    /\ coords = NoCoords

StageStep ==
    \/ svd_write_u \/ svd_write_v \/ svd_write_s
    \/ save_Atilde_var
    \/ save_modes_real \/ save_modes_imag \/ save_modes_b \/ save_modes_lambda
    \/ save_prediction_var

Next ==
    \/ multires_var \/ multires_level
    \/ multires_call_svd \/ multires_call_Atilde \/ multires_call_modes
    \/ multires_filter_b \/ multires_filter_lambda
    \/ multires_write_real_2 \/ multires_write_imag_2
    \/ multires_rm_real \/ multires_rm_imag
    \/ multires_mv_real \/ multires_mv_imag
    \/ multires_call_prediction \/ multires_next_segment \/ multires_level_end
    \/ StageStep \/ svd_fail
    \/ Interrupt

Spec == Init /\ [][Next]_vars

-----------------------------------------------------------------------------
(* Stage calls made by the user on the flat results roots *)

MaxCalls == 4
MaxPredEnd == 3
MaxFrameSkip == 2

StageVarLists == {<<"p">>, <<"p", "q">>, <<"q", "p">>}
PredEnds == {None, Some(MaxPredEnd)}

\* var in self.get_folderlist(path)
FolderExists(f, d, v) == \E n \in Names : f[d][v][n] # None
\* shutil.rmtree(path / var)
RmTree(f, d, v) == [f EXCEPT ![d][v] = [n \in Names |-> None]]

RECURSIVE overwrite_guard(_, _, _, _)
\* POD.overwrite_guard: for each variable whose folder exists the user is
\* asked; on "y" the folder is removed, otherwise the variable is dropped
\* from the list.  The result is <<storage, variables>>.
overwrite_guard(f, path, variables, answers) ==
    IF variables = <<>> THEN <<f, <<>>>>
    ELSE LET var == Head(variables) IN
         IF FolderExists(f, path, var)
         THEN IF answers[var]
              THEN LET r == overwrite_guard(RmTree(f, path, var), path,
                                            Tail(variables), answers)
                   IN  <<r[1], <<var>> \o r[2]>>
              ELSE overwrite_guard(f, path, Tail(variables), answers)
         ELSE LET r == overwrite_guard(f, path, Tail(variables), answers)
              IN  <<r[1], <<var>> \o r[2]>>

\* the answers that matter: a variable without a folder is not asked
Answers(path, variables) ==
    {a \in [Vars -> BOOLEAN] :
        \A v \in Vars :
            ~(FolderExists(fs, path, v) /\ \E k \in 1..Len(variables) : variables[k] = v)
                => a[v]}

UserIdle == ~mr.active /\ st.op = "none" /\ Len(calls) < MaxCalls

\* the record of calls after one more: the latest call by name, the ones
\* before it only counted
Called(op) == Append([i \in 1..Len(calls) |-> "earlier"], op)

StBegin(op, asked, variables, first_pc) ==
    IF variables = <<>> THEN IdleSt
    ELSE [IdleSt EXCEPT !.op = op, !.asked = asked, !.vars = variables, !.idx = 1,
                        !.pc = first_pc, !.pod = roots.pod, !.dmd = roots.dmd]

call_svd_save_usv ==
    /\ UserIdle
    /\ \E vs \in StageVarLists, X1 \in BOOLEAN :
       \E a \in Answers(roots.pod, vs) :
          LET g == overwrite_guard(fs, roots.pod, vs, a)
          IN  /\ fs' = g[1]
              /\ st' = [StBegin("svd", vs, g[2], "u") EXCEPT !.X1 = X1]
    /\ calls' = Called("svd_save_usv")
    /\ err' = ""
    /\ coords' = CopyCoords(coords, roots.pod)
    /\ UNCHANGED <<an, data, cfg, roots, lp, leveldirs, mr>>

call_save_Atilde ==
    /\ UserIdle
    /\ \E vs \in StageVarLists :
       \E a \in Answers(roots.dmd, vs) :
          LET g == overwrite_guard(fs, roots.dmd, vs, a)
          IN  /\ fs' = g[1]
              /\ st' = StBegin("Atilde", vs, g[2], "")
    /\ calls' = Called("save_Atilde")
    /\ err' = ""
    /\ coords' = CopyCoords(coords, roots.dmd)
    /\ UNCHANGED <<an, data, cfg, roots, lp, leveldirs, mr>>

call_save_modes ==
    /\ UserIdle
    /\ \E vs \in StageVarLists, proj \in BOOLEAN :
          st' = [StBegin("modes", vs, vs, "modes_real") EXCEPT !.proj = proj]
    /\ calls' = Called("save_modes")
    /\ err' = ""
    /\ UNCHANGED <<coords, an, data, cfg, roots, fs, lp, leveldirs, mr>>

call_save_prediction ==
    /\ UserIdle
    /\ \E vs \in StageVarLists, end \in PredEnds, frame_skip \in {1, MaxFrameSkip} :
          st' = [StBegin("prediction", vs, vs, "") EXCEPT !.end = end,
                                                     !.end_arg = end,
                                                     !.frame_skip = frame_skip]
    /\ calls' = Called("save_prediction")
    /\ err' = ""
    /\ UNCHANGED <<coords, an, data, cfg, roots, fs, lp, leveldirs, mr>>

InitStages ==
    /\ data = [v \in Vars |-> Dataset(v, MinCols)]
    /\ cfg = NoCfg
    /\ fs = [d \in Dirs |-> EmptyDir]
    /\ lp = [L \in 0..(MaxLevels - 1) |-> [v \in Vars |-> None]]
    /\ leveldirs = {}
    /\ mr = IdleMr
    /\ st = IdleSt
    /\ \E d \in FlatDirs : roots = [pod |-> PodRoot, dmd |-> d]
    /\ calls = <<>>
    /\ err = ""
    /\ an = IdleAn
    /\ coords = NoCoords

NextStages ==
    \/ call_svd_save_usv \/ call_save_Atilde \/ call_save_modes \/ call_save_prediction
    \/ StageStep
    \/ Interrupt

SpecStages == InitStages /\ [][NextStages]_vars

-----------------------------------------------------------------------------
(* The SVD, Atilde and modes stages under decimation settings made before  *)
(* the first stage call.                                                   *)

ConfiguredCols == 6
\* the settings in force: each of cutoff, cut-in and stride unset or set
Settings ==
    [data_cutoff : {None, Some(100)}, data_cutin : {None, Some(50), Some(100)},
     data_skip : {None, Some(3)}, dt : {None}, t0 : {None}]

InitConfigured ==
    /\ data = [v \in Vars |-> Dataset(v, ConfiguredCols)]
    /\ cfg \in Settings
    /\ fs = [d \in Dirs |-> EmptyDir]
    /\ lp = [L \in 0..(MaxLevels - 1) |-> [v \in Vars |-> None]]
    /\ leveldirs = {}
    /\ mr = IdleMr
    /\ st = IdleSt
    /\ roots = [pod |-> PodRoot, dmd |-> DmdRoot]
    /\ calls = <<"set_data">>
    /\ err = ""
    /\ an = IdleAn
    /\ coords = NoCoords

NextConfigured ==
    \/ call_svd_save_usv \/ call_save_Atilde \/ call_save_modes
    \/ svd_write_u \/ svd_write_v \/ svd_write_s \/ svd_fail \/ svd_decimate_fail
    \/ save_Atilde_var
    \/ save_modes_real \/ save_modes_imag \/ save_modes_b \/ save_modes_lambda

SpecConfigured == InitConfigured /\ [][NextConfigured]_vars

-----------------------------------------------------------------------------
(* Decimation settings and Base.data_decimate called on its own *)

MaxDecimCols == 4
MaxSkip == 2
\* the column counts of the matrices handed to data_decimate
DecimCols == (1..MaxDecimCols) \cup {100}
\* the percentages given to set_data_cutoff and set_data_cutin
Percents == {30, 50, 100}

set_data_cutin ==
    /\ \E k \in {None} \cup {Some(x) : x \in Percents} :
          cfg' = [cfg EXCEPT !.data_cutin = k]
    /\ UNCHANGED <<coords, an, data, roots, fs, lp, leveldirs, mr, st, calls, err>>

set_data_cutoff ==
    /\ \E c \in {None} \cup {Some(x) : x \in Percents} :
          cfg' = [cfg EXCEPT !.data_cutoff = c]
    /\ UNCHANGED <<coords, an, data, roots, fs, lp, leveldirs, mr, st, calls, err>>

set_data_skip ==
    /\ \E k \in {None} \cup {Some(x) : x \in 1..MaxSkip} :
          cfg' = [cfg EXCEPT !.data_skip = k]
    /\ UNCHANGED <<coords, an, data, roots, fs, lp, leveldirs, mr, st, calls, err>>

\* a matrix of n columns whose entries are the column's own index 0 .. n-1
IndexMatrix(n) == Matrix(1, [c \in 1..n |-> c - 1])

\* data_decimate(df, X1, X2) called on an n-column matrix under the
\* current settings; the frame keeps the arguments, the settings read and
\* the matrix returned.
call_data_decimate ==
    /\ \E n \in DecimCols, X1 \in BOOLEAN, X2 \in BOOLEAN :
          an' = [op |-> "data_decimate", n |-> n, X1 |-> X1, X2 |-> X2, cfg |-> cfg,
                 out |-> data_decimate(IndexMatrix(n), X1, X2)]
    /\ UNCHANGED <<coords, data, cfg, roots, fs, lp, leveldirs, mr, st, calls, err>>

InitAnalysis ==
    /\ data = [v \in Vars |-> Dataset(v, MinCols)]
    /\ cfg = NoCfg
    /\ fs = [d \in Dirs |-> EmptyDir]
    /\ lp = [L \in 0..(MaxLevels - 1) |-> [v \in Vars |-> None]]
    /\ leveldirs = {}
    /\ mr = IdleMr
    /\ st = IdleSt
    /\ roots = [pod |-> PodRoot, dmd |-> DmdRoot]
    /\ calls = <<>>
    /\ err = ""
    /\ an = IdleAn
    /\ coords = NoCoords

NextAnalysis ==
    \/ set_data_cutin \/ set_data_cutoff \/ set_data_skip
    \/ call_data_decimate

SpecAnalysis == InitAnalysis /\ [][NextAnalysis]_vars

-----------------------------------------------------------------------------
(* Properties of one multires call (Spec) *)

TheCall == calls[1]
LastVar == TheCall.vars[Len(TheCall.vars)]
\* the call returned without an exception
Returned == ~mr.active /\ st.op = "none" /\ err = ""
\* multires is decomposing level mr.level: its input df is in place
Decomposing == mr.active /\ mr.pc \notin {"var", "level"}
\* the truncated original matrix of variable v
Original(v) == Truncate(data[v], TheCall.end[1], TheCall.levels)

RECURSIVE SumLevels(_, _)
\* element-wise sum of the persisted level_0 .. level_{n-1} level_prediction
SumLevels(v, n) ==
    IF n = 1 THEN lp[0][v][1].cols
    ELSE RowAdd(SumLevels(v, n - 1), lp[n - 1][v][1].cols)

\* the last level's input minus the last level's concatenated prediction
FinalResidual(v, n) ==
    LET input == IF n = 1 THEN Original(v) ELSE lp[n - 2][v][1]
    IN  Residual(input, LevelConcat(n - 1, v))

\* C1: after multires(levels = n) returns, the element-wise sum of the n
\* persisted level_prediction matrices of the variable plus the final
\* residual equals the column-truncated original snapshot matrix.
C1_Conservation ==
    Returned =>
        RowAdd(SumLevels(LastVar, TheCall.levels),
               FinalResidual(LastVar, TheCall.levels).cols) = Original(LastVar).cols

\* C2: when multires returns, the matrix persisted at
\* level_{L}/{variable}/level_prediction is, for every level L, the
\* column-wise concatenation in segment order of the slow-mode predictions
\* of the 2^L segments of that level.
C2_LevelPredictionIsConcat ==
    Returned =>
        \A L \in 0..(TheCall.levels - 1) :
            lp[L][LastVar][1].cols = LevelConcat(L, LastVar)

RECURSIVE LevelInput(_, _)
\* level 0 decomposes the truncated original; level L + 1 decomposes level
\* L's input minus level L's concatenated slow-mode prediction
LevelInput(L, v) ==
    IF L = 0 THEN Original(v)
    ELSE Residual(LevelInput(L - 1, v), LevelConcat(L - 1, v))

\* C3: the matrix a level decomposes is the previous level's input minus
\* the previous level's concatenated slow-mode prediction (level 0: the
\* truncated original), and every segment handed to the SVD and DMD stages
\* is a slice of that matrix.
C3_NextLevelDecomposesResidual ==
    /\ Decomposing => mr.df = LevelInput(mr.level, MrVar)
    /\ (mr.active /\ st.op \in {"svd", "Atilde", "modes"}) =>
           st.in_mem = Some(Segment(LevelInput(mr.level, MrVar), mr.i, mr.slice_size))

\* C3 witness: level 1 is being decomposed, and its input differs from the
\* truncated original because level 0 predicted something.
C3_Witness ==
    /\ Decomposing /\ mr.level = 1 /\ st.op = "modes"
    /\ NCols(mr.df) > 0
    /\ mr.df # Original(MrVar)

\* the segments multires cuts the level's input into
Segments == [j \in 1..Pow2(mr.level) |-> Segment(mr.df, j - 1, mr.slice_size)]

\* C4: at every level L the input is split into 2^L contiguous, disjoint
\* column segments in increasing order, each of (column count / 2^L)
\* columns, which together are every column of the level's input.
C4_SegmentsPartitionInput ==
    Decomposing =>
        /\ ConcatAll([j \in 1..Pow2(mr.level) |-> Segments[j].cols]) = mr.df.cols
        /\ \A j \in 1..Pow2(mr.level) :
               NCols(Segments[j]) * Pow2(mr.level) = NCols(mr.df)

IsPow2(n) == \E e \in 0..n : Pow2(e) = n

C6_Isolation ==
    [][mr.active =>
          \A d \in Dirs : \A v \in Vars \ {MrVar} : fs'[d][v] = fs[d][v]]_vars

\* C7: when multires returns, every level / segment / variable of the call
\* holds only slow modes: no eigenvalue persisted in lambda.pkl is at or
\* above the threshold of its segment.
C7_OnlySlowModesAtReturn ==
    Returned =>
        \A k \in 1..Len(TheCall.vars) : \A L \in 0..(TheCall.levels - 1) :
        \A i \in 0..(Pow2(L) - 1) :
            LET v    == TheCall.vars[k]
                eigs == Get(SegDir(L, i), v, "lambda")
            IN  \A j \in 1..Len(eigs) :
                    IsSlow(eigs[j], NCols(lp[L][v][1]) \div Pow2(L))

\* the factors of one variable are all there and factor one matrix, or
\* none is there
UsvWhole(d, v) ==
    (Has(d, v, "u") \/ Has(d, v, "v") \/ Has(d, v, "s")) =>
        /\ Has(d, v, "u") /\ Has(d, v, "v") /\ Has(d, v, "s")
        /\ Get(d, v, "u") = Get(d, v, "v") /\ Get(d, v, "v") = Get(d, v, "s")

\* modes, amplitudes and eigenvalues of one variable are all there and of
\* one mode count, or none is there
ModesWhole(d, v) ==
    /\ ~Has(d, v, "modes_real_2") /\ ~Has(d, v, "modes_imag_2")
    /\ (Has(d, v, "modes_real") \/ Has(d, v, "modes_imag")
           \/ Has(d, v, "b") \/ Has(d, v, "lambda")) =>
          /\ Has(d, v, "modes_real") /\ Has(d, v, "modes_imag")
          /\ Has(d, v, "b") /\ Has(d, v, "lambda")
          /\ Get(d, v, "modes_real").cols = Get(d, v, "modes_imag").cols
          /\ Len(Get(d, v, "b")) = Len(Get(d, v, "modes_real").cols)
          /\ Len(Get(d, v, "lambda")) = Len(Get(d, v, "b"))

\* C9: after a stage failed or was interrupted, none of its output
\* artifacts is left on storage partially written or inconsistent with
\* the others.
C9_AllOrNothing ==
    err # "" => \A d \in Dirs : \A v \in Vars : UsvWhole(d, v) /\ ModesWhole(d, v)

-----------------------------------------------------------------------------
(* Properties of the stage calls (SpecStages) *)

AtildeInputs(d, v) == Has(d, v, "u") /\ Has(d, v, "v") /\ Has(d, v, "s")
PredictionInputs(d, v) ==
    /\ Has(d, v, "b") /\ Has(d, v, "lambda")
    /\ Has(d, v, "modes_real") /\ Has(d, v, "modes_imag")
\* the step wrote nothing and ended the call with NotFound (or the call was
\* interrupted before the stage could look)
FailsNotFound ==
    /\ fs' = fs
    /\ st'.op = "none"
    /\ err' \in {"NotFound", "Interrupted"}

\* C8: a stage writes its artifacts for a variable only if its
\* predecessor's artifacts of that variable are on storage: save_Atilde
\* needs u, v and s.pkl, save_modes needs Atilde.pkl, save_prediction needs
\* b, lambda, modes_real and modes_imag; invoked while one is missing, the
\* stage fails with NotFound and writes nothing.
C8_StageOrdering ==
    [][/\ st.op = "Atilde" =>
            /\ fs' # fs => AtildeInputs(st.pod, StVar)
            /\ ~AtildeInputs(st.pod, StVar) => FailsNotFound
       /\ st.op = "modes" =>
            /\ fs' # fs => Has(st.dmd, StVar, "Atilde")
            /\ ~Has(st.dmd, StVar, "Atilde") => FailsNotFound
       /\ st.op = "prediction" =>
            /\ fs' # fs => PredictionInputs(st.dmd, StVar)
            /\ ~PredictionInputs(st.dmd, StVar) => FailsNotFound]_vars

\* C8 witness: save_prediction was called for a variable that has its
\* Atilde but no modes yet; it failed with NotFound and left no prediction.
C8_Witness ==
    /\ calls # <<>> /\ calls[Len(calls)] = "save_prediction"
    /\ err = "NotFound"
    /\ \E v \in Vars :
          /\ Has(roots.dmd, v, "Atilde")
          /\ ~Has(roots.dmd, v, "b") /\ ~Has(roots.dmd, v, "prediction")

\* C10: when a stage called with a list fails for one variable, it goes on
\* with the later variables of the list, and the artifacts of the variables
\* it completed before are unchanged.
C10_BatchContinues ==
    [][(st.op # "none" /\ ~mr.active /\ st.idx < Len(st.vars)
          /\ err' # "Interrupted") =>
           /\ st'.op = st.op
           /\ \A k \in 1..(st.idx - 1) : \A d \in Dirs :
                  fs'[d][st.vars[k]] = fs[d][st.vars[k]]]_vars

InSeq(x, q) == \E k \in 1..Len(q) : q[k] = x

\* C11: with POD and DMD artifacts under one results root, a call of
\* save_Atilde for a variable whose u, v and s.pkl are stored there leaves
\* these three intact and keeps the variable in the list it goes on to
\* compute Atilde for, whatever is answered to the overwrite prompt.
C11_SharedRootKeepsFactors ==
    [][(roots.pod = roots.dmd /\ calls' # calls
          /\ calls'[Len(calls')] = "save_Atilde") =>
           \A v \in Vars :
              (AtildeInputs(roots.pod, v) /\ InSeq(v, st'.asked)) =>
                  /\ \A n \in {"u", "v", "s"} : fs'[roots.pod][v][n] = fs[roots.pod][v][n]
                  /\ InSeq(v, st'.vars)]_vars

-----------------------------------------------------------------------------
(* Base.correlate.  A series is a sequence of integers.  The entries of    *)
(* the full cross-correlation are kept as integers: entry k of corr is     *)
(* R[k] / (len(v1)^2 * len(v2) * std(v1) * std(v2)), so between entries of *)
(* one call the order and the equality of R are those of corr.  With a     *)
(* series of zero variance every entry of corr is 0 / 0 = NaN.             *)

MaxSeriesLen == 4
LongLen == 550
ShortSeries == UNION {[1..n -> {0, 1}] : n \in 1..MaxSeriesLen}
\* a series long enough for one percent of its length to exceed 5
LongSeries == [i \in 1..LongLen |-> i % 2]
\* the pairs of series correlate is called on
SeriesPairs == (ShortSeries \X ShortSeries) \cup {<<LongSeries, <<0, 1, 1>>>>}

RECURSIVE Total(_, _, _)
\* v[lo] + ... + v[hi], summed by halves
Total(v, lo, hi) ==
    IF hi < lo THEN 0
    ELSE IF hi = lo THEN v[lo]
    ELSE LET m == (lo + hi) \div 2 IN Total(v, lo, m) + Total(v, m + 1, hi)

\* len(v) * (v - np.mean(v))
Centered(v) ==
    LET t == Total(v, 1, Len(v)) IN [i \in 1..Len(v) |-> Len(v) * v[i] - t]
\* np.std(v) = 0
ZeroVariance(v) == \A i \in 1..Len(v) : Centered(v)[i] = 0

\* signal.correlate(a, b, mode="full"): entry k (from 0) is the sum of
\* a[l + lag] * b[l] at lag = k - (len(b) - 1)
FullCorrelate(a, b) ==
    [k \in 1..(Len(a) + Len(b) - 1) |->
        SumSeq([l \in 1..Len(b) |->
                   LET i == l + (k - 1) - (Len(b) - 1)
                   IN  IF i >= 1 /\ i <= Len(a) THEN a[i] * b[l] ELSE 0])]
\* the index (from 0) of the entry of lag 0
ZeroLagIndex(v1, v2) == Len(v2) - 1

\* window = max(round(len(v1) * 0.01), 5), rounding half to even
Window_rounded(n) ==
    LET q == n \div 100
        r == n % 100
    IN  Max(IF r > 50 \/ (r = 50 /\ q % 2 = 1) THEN q + 1 ELSE q, 5)
\* window = max(int(len(v1) * 0.01), 5)
Window(n) == Max(n \div 100, 5)

\* rolling(window=w, center=True, closed="both") over m values: the
\* positions (from 0) lo .. hi - 1 averaged for position i
RollLo(i, w, m) == Max(Min(i + ((w - 1) \div 2) - w, m), 0)
RollHi(i, w, m) == Max(Min(i + 1 + ((w - 1) \div 2), m), 0)
\* .mean() is a number where the window holds at least w values
\* (min_periods = window), NaN elsewhere
RollValid(i, w, m) == RollHi(i, w, m) - RollLo(i, w, m) >= w
RollSum(R, i, w) ==
    SumSeq([x \in 1..(RollHi(i, w, Len(R)) - RollLo(i, w, Len(R))) |->
               R[RollLo(i, w, Len(R)) + x]])
RollCount(R, i, w) == RollHi(i, w, Len(R)) - RollLo(i, w, Len(R))
\* corr_smooth as <<sum, count>> per position
Rolling(R, w) == [i \in 0..(Len(R) - 1) |-> <<RollSum(R, i, w), RollCount(R, i, w)>>]
\* mean x below mean y
RollLess(x, y) == x[1] * y[2] < y[1] * x[2]
\* the positions of corr_smooth that are numbers
Smoothable(R, w) == {i \in 0..(Len(R) - 1) : RollValid(i, w, Len(R))}
\* argmax skips NaN and returns the first position of the maximum
ArgMax(R, w) ==
    LET sm == Rolling(R, w)
        ok == Smoothable(R, w)
    IN  CHOOSE i \in ok :
           /\ \A j \in ok : ~RollLess(sm[i], sm[j])
           /\ \A j \in ok : j < i => RollLess(sm[j], sm[i])

\* what argmax does on a series without any number: position -1 (with a
\* warning) or a ValueError, depending on the pandas release
AllNaNOutcomes == {"minus_one", "ValueError"}

\* Base.correlate(v1, v2): the frame keeps the arguments, the window, the
\* entries R of corr (nan: all of them are NaN), the positions (from 0)
\* corrcoef and corrcoef_adj are read at, and whether argmax raised.
correlate(v1, v2, allnan) ==
    LET R       == FullCorrelate(Centered(v1), Centered(v2))
        w       == Window(Len(v1))
        nan     == ZeroVariance(v1) \/ ZeroVariance(v2)
        nothing == nan \/ Smoothable(R, w) = {}
        lag     == IF nothing THEN Len(R) - 1 ELSE ArgMax(R, w)
    IN  [op |-> "correlate", v1 |-> v1, v2 |-> v2, window |-> w, R |-> R,
         nan |-> nan,
         raised |-> nothing /\ allnan = "ValueError",
         mid |-> Len(R) \div 2,
         lagindex |-> lag]

call_correlate ==
    /\ an.op = "none"
    /\ \E pr \in SeriesPairs, allnan \in AllNaNOutcomes :
          an' = correlate(pr[1], pr[2], allnan)
    /\ UNCHANGED <<coords, data, cfg, roots, fs, lp, leveldirs, mr, st, calls, err>>

-----------------------------------------------------------------------------
(* Base.correlation_signals: the signals of two folders, one matrix of     *)
(* corrcoef and one of corrcoef_adj, filled pair by pair.                  *)

MaxSignals == 2
\* the signals found in the folders: non-constant and long enough to smooth
SignalPool == {<<0, 1, 0>>, <<0, 0, 1>>}
SignalLists == UNION {[1..n -> SignalPool] : n \in 1..MaxSignals}

\* the number corr[k] stands for: NaN is None
CorrValue(c, k) == IF c.nan THEN None ELSE Some(c.R[k + 1])
\* corrcoef and corrcoef_adj as correlate returns them
corrcoef(c) == CorrValue(c, c.mid)
corrcoef_adj(c) == CorrValue(c, c.lagindex)

\* pd.DataFrame(np.nan, columns=range(|A|), index=range(|B|))
NaNFrame(A, B) == [r \in 0..(Len(B) - 1) |-> [c \in 0..(Len(A) - 1) |-> None]]
\* .iat[i, j] = x is within the frame
IatInside(df, i, j) == i \in DOMAIN df /\ j \in DOMAIN df[i]

call_correlation_signals ==
    /\ an.op = "none"
    /\ \E A \in SignalLists, B \in SignalLists :
          an' = [op |-> "correlation_signals", A |-> A, B |-> B, i |-> 0, j |-> 0,
                 dfcorr |-> NaNFrame(A, B), dfcorr_adjusted |-> NaNFrame(A, B)]
    /\ UNCHANGED <<coords, data, cfg, roots, fs, lp, leveldirs, mr, st, calls, err>>

\* one pass of the inner loop: correlate(A_i, B_j), then the two cells
correlation_signals_step ==
    /\ an.op = "correlation_signals"
    /\ \E allnan \in AllNaNOutcomes :
          LET c == correlate(an.A[an.i + 1], an.B[an.j + 1], allnan)
              last_j == an.j + 1 = Len(an.B)
              last_i == an.i + 1 = Len(an.A)
          IN  IF c.raised
              THEN /\ an' = [an EXCEPT !.op = "failed"]
                   /\ err' = "ValueError"
              ELSE IF ~IatInside(an.dfcorr, an.i, an.j)
              THEN /\ an' = [an EXCEPT !.op = "failed"]
                   /\ err' = "IndexError"
              ELSE /\ an' = [an EXCEPT
                                !.dfcorr[an.i][an.j] = corrcoef(c),
                                !.dfcorr_adjusted[an.i][an.j] = corrcoef_adj(c),
                                !.j = IF last_j THEN 0 ELSE an.j + 1,
                                !.i = IF last_j THEN an.i + 1 ELSE an.i,
                                !.op = IF last_j /\ last_i THEN "plot"
                                       ELSE "correlation_signals"]
                   /\ UNCHANGED err
    /\ UNCHANGED <<coords, data, cfg, roots, fs, lp, leveldirs, mr, st, calls>>

NextCorrelate ==
    \/ call_correlate
    \/ call_correlation_signals \/ correlation_signals_step

SpecCorrelate == InitAnalysis /\ [][NextCorrelate]_vars

-----------------------------------------------------------------------------
(* Properties of data_decimate (SpecAnalysis) *)

Decimated == an.op = "data_decimate"
\* the column indices lo, lo + step, ... below hi
Range(lo, hi, step) ==
    IF hi <= lo THEN <<>>
    ELSE [i \in 1..((hi - lo + step - 1) \div step) |-> lo + (i - 1) * step]

\* C12: with cutoff c and cut-in k both set (no stride, X1 = X2 = False),
\* data_decimate keeps the columns floor(N*k/100) .. floor(N*c/100) - 1 of
\* its N-column input: both percentages are taken of N.
C12_PercentagesOfTotal ==
    (Decimated /\ an.cfg.data_cutoff # None /\ an.cfg.data_cutin # None
        /\ an.cfg.data_skip = None /\ ~an.X1 /\ ~an.X2) =>
        an.out.cols = Range((an.n * an.cfg.data_cutin[1]) \div 100,
                            (an.n * an.cfg.data_cutoff[1]) \div 100, 1)

-----------------------------------------------------------------------------
(* Properties of save_modes under decimation settings (SpecConfigured) *)

\* C14: the amplitudes save_modes persists are fitted to column 0 of the
\* original, non-decimated snapshot matrix of the variable, whatever cutoff,
\* cut-in and stride are configured.
C14_X0IsOriginalFirstColumn ==
    \A v \in Vars :
        Has(roots.dmd, v, "b") =>
            \A j \in 1..Len(Get(roots.dmd, v, "b")) :
                Get(roots.dmd, v, "b")[j][2] = data[v].cols[1]

\* C14 witness: amplitudes were persisted while the cut-in makes the
\* decimated matrix, which the SVD and X2 are taken from, start at a later
\* column.
C14_Witness ==
    /\ cfg.data_cutin # None
    /\ \E v \in Vars :
          /\ Has(roots.dmd, v, "b") /\ Len(Get(roots.dmd, v, "b")) > 0
          /\ Get(roots.pod, v, "u").of.cols[1] # data[v].cols[1]
          /\ Get(roots.dmd, v, "b")[1][2] = data[v].cols[1]

-----------------------------------------------------------------------------
(* Properties of save_prediction (SpecStages) *)

\* save_prediction writes the prediction of its current variable with an
\* explicit (or inherited) end
WritesPrediction ==
    /\ st.op = "prediction" /\ ~mr.active /\ st.end # None
    /\ fs'[st.dmd][StVar]["prediction"] # fs[st.dmd][StVar]["prediction"]
\* the prediction just written
Written == fs'[st.dmd][StVar]["prediction"][1]
\* sum over the modes of amplitude times Re(exp(omega * t)) at snapshot time t
ValueAt(t) ==
    LET b    == Get(st.dmd, StVar, "b")
        eigs == Get(st.dmd, StVar, "lambda")
    IN  SumSeq([j \in 1..Len(b) |->
                   b[j][2] * Osc(eigs[IF Len(eigs) = 1 THEN 1 ELSE j][2], t)])
\* column i (from 0) is evaluated at time i * frame_skip * dt and the rows
\* are those of the modes
TimesAndRows ==
    /\ Written.rows = Get(st.dmd, StVar, "modes_real").rows
    /\ \A i \in 1..NCols(Written) :
           Written.cols[i] = ValueAt((i - 1) * st.frame_skip)

\* C15 (as claimed): the prediction save_prediction(end, frame_skip) writes
\* has column i evaluated at time i * frame_skip * dt, the row count of the
\* modes and end columns.
C15_ColumnCountIsEnd ==
    [][WritesPrediction => (TimesAndRows /\ NCols(Written) = st.end[1])]_vars

\* C15 (amended): the prediction has column i evaluated at time
\* i * frame_skip * dt, the row count of the modes and
\* ceil(end / frame_skip) columns: one per time 0, frame_skip, 2 frame_skip,
\* ... below end.
C15_ColumnCountIsCeil ==
    [][WritesPrediction =>
          /\ TimesAndRows
          /\ NCols(Written) = (st.end[1] + st.frame_skip - 1) \div st.frame_skip]_vars

\* C15 witness: a prediction of two columns written with end = 3 and
\* frame_skip = 2 from at least one mode.
C15_Witness ==
    /\ calls # <<>> /\ calls[Len(calls)] = "save_prediction"
    /\ st.op = "prediction" /\ st.idx = 2 /\ st.frame_skip = 2 /\ st.end = Some(3)
    /\ Has(st.dmd, st.vars[1], "prediction")
    /\ NCols(Get(st.dmd, st.vars[1], "prediction")) = 2
    /\ Len(Get(st.dmd, st.vars[1], "b")) > 0

-----------------------------------------------------------------------------
(* Properties of correlate and correlation_signals (SpecCorrelate) *)

Correlated == an.op = "correlate"

\* C16: the smoothing window of correlate is max(round(0.01 * len(v1)), 5)
\* (stated for series of non-zero variance).
C16_WindowIsRounded ==
    (Correlated /\ ~an.nan) => an.window = Window_rounded(Len(an.v1))

\* C17: the corr0 correlate returns is the entry of the full
\* cross-correlation at zero lag, for series of equal or different lengths
\* (stated for series of non-zero variance and a call that returns).
C17_Corr0IsZeroLag ==
    (Correlated /\ ~an.nan /\ ~an.raised) => an.mid = ZeroLagIndex(an.v1, an.v2)

\* the entry of corr at position k is 1: it equals the zero-lag entry of
\* the auto-correlation, which is len(v) * var(v) / (len(v) * std(v)^2)
IsOne(k) == an.R[k + 1] = an.R[ZeroLagIndex(an.v1, an.v2) + 1]

\* C18: for a non-constant series v, correlate(v, v) returns (1.0, 1.0).
C18_SelfCorrelationIsOne ==
    (Correlated /\ an.v1 = an.v2 /\ ~ZeroVariance(an.v1)) =>
        /\ ~an.raised
        /\ IsOne(an.mid)
        /\ IsOne(an.lagindex)

\* C19: with an input of zero variance correlate does not raise and
\* returns the pair (NaN, NaN).
C19_ZeroVarianceFallback ==
    (Correlated /\ (ZeroVariance(an.v1) \/ ZeroVariance(an.v2))) =>
        /\ ~an.raised
        /\ corrcoef(an) = None /\ corrcoef_adj(an) = None

\* C20: correlation_signals never writes outside its matrices, and when
\* its loops are done entry (i, j) of both matrices holds
\* correlate(A_i, B_j), for every i < |A| and j < |B|.
C20_PairwiseFill ==
    /\ ~(an.op = "failed" /\ err = "IndexError")
    /\ an.op = "plot" =>
           \A i \in 0..(Len(an.A) - 1) : \A j \in 0..(Len(an.B) - 1) :
              LET c == correlate(an.A[i + 1], an.B[j + 1], "minus_one")
              IN  /\ IatInside(an.dfcorr, i, j)
                  /\ an.dfcorr[i][j] = corrcoef(c)
                  /\ an.dfcorr_adjusted[i][j] = corrcoef_adj(c)

-----------------------------------------------------------------------------
(* Properties of the failure paths (Spec, SpecStages) *)

\* C21: when the matrix svd_save_usv is about to factor has fewer than 2
\* columns, the stage's next step (a cancellation apart) raises
\* InsufficientData and writes nothing.
C21_InsufficientDataFailsFast ==
    [][(st.op = "svd" /\ st.pc = "u" /\ NCols(SvdInput) < 2
          /\ err' # "Interrupted")
        => (err' = "InsufficientData" /\ fs' = fs)]_vars

-----------------------------------------------------------------------------
(* save_prediction called on results that earlier runs persisted under     *)
(* the flat DMD root: b.pkl, lambda.pkl, modes_real and modes_imag of any  *)
(* mode counts.                                                            *)

MaxModes == 2

\* the files of one variable: b.pkl with nb amplitudes, lambda.pkl with the
\* eigenvalues lam, and modes_real / modes_imag with nphi columns each
PersistedModes(v, nb, lam, nphi) ==
    LET phi == [rows |-> NumRows, cols |-> [j \in 1..nphi |-> j], of |-> <<>>]
    IN  [n \in Names |->
            IF n = "b" THEN Some(Amplitudes(phi, DataVal(v, 0)))
            ELSE IF n = "lambda" THEN Some(lam)
            ELSE IF n \in {"modes_real", "modes_imag"} THEN Some(phi)
            ELSE None]

\* b.pkl replaced by one of nb amplitudes
WithAmplitudes(dir, v, nb) ==
    [dir EXCEPT !["b"] = Some([j \in 1..nb |-> <<j, DataVal(v, 0)>>])]

InitPrediction ==
    /\ data = [v \in Vars |-> Dataset(v, MinCols)]
    /\ cfg = NoCfg
    /\ \E nb \in 0..MaxModes, nl \in 0..MaxModes, nphi \in 0..MaxModes,
          nq \in 0..MaxModes :
       \E lam \in Spectra(nl) :
          fs = [d \in Dirs |->
                  IF d = DmdRoot
                  THEN [v \in Vars |->
                          IF v = "p"
                          THEN WithAmplitudes(PersistedModes(v, nphi, lam, nphi), v, nb)
                          ELSE PersistedModes(v, nq, [j \in 1..nq |-> <<j, 0>>], nq)]
                  ELSE EmptyDir]
    /\ lp = [L \in 0..(MaxLevels - 1) |-> [v \in Vars |-> None]]
    /\ leveldirs = {}
    /\ mr = IdleMr
    /\ st = IdleSt
    /\ roots = [pod |-> PodRoot, dmd |-> DmdRoot]
    /\ calls = <<>>
    /\ err = ""
    /\ an = IdleAn
    /\ coords = NoCoords

NextPrediction == call_save_prediction \/ save_prediction_var

SpecPrediction == InitPrediction /\ [][NextPrediction]_vars

\* the number of columns of phi = phi_real + 1j * phi_imag persisted for v
ModeCount(d, v) ==
    Cardinality(PhiLabels(Get(d, v, "modes_real"), Get(d, v, "modes_imag")))

\* C22: when the persisted modes of the current variable have a column
\* count other than the length of the persisted b or of the persisted
\* lambda, save_prediction fails with the dimension error (the ValueError
\* numpy and dask raise for shapes that do not fit) and writes nothing.
C22_DimensionMismatchFails ==
    [][(/\ st.op = "prediction"
        /\ PredictionInputs(st.dmd, StVar)
        /\ \/ ModeCount(st.dmd, StVar) # Len(Get(st.dmd, StVar, "b"))
           \/ ModeCount(st.dmd, StVar) # Len(Get(st.dmd, StVar, "lambda")))
        => (err' \in {"DimensionMismatch", "ValueError"} /\ fs' = fs)]_vars

-----------------------------------------------------------------------------
(* multires runs followed by multires_predict on one path_mrdmd *)

MaxRuns == 2
RunCols == 4

\* what a missing entry of a label-aligned sum holds
NaN == "NaN"

\* "discover the number of levels": the first L with no directory level_{L}
DiscoverLevels ==
    CHOOSE n \in 0..MaxLevels :
        /\ \A L \in 0..(n - 1) : L \in leveldirs
        /\ n \in leveldirs => n = MaxLevels

\* prediction_df = predictions[0]; prediction_df += predictions[i], i >= 1:
\* dask frames add aligned on their column labels, and a label that one of
\* the frames lacks gives NaN
SumPredictions(var, n) ==
    LET cols(L) == lp[L][var][1].cols
        longest  == CHOOSE k \in {Len(cols(L)) : L \in 0..(n - 1)} :
                        \A L \in 0..(n - 1) : Len(cols(L)) <= k
    IN  [i \in 1..longest |->
            IF \A L \in 0..(n - 1) : i <= Len(cols(L))
            THEN SumSeq([L \in 1..n |-> cols(L - 1)[i]])
            ELSE NaN]

\* the variable lists of the runs
RunVarLists == {<<"p">>}

MultiresCalls == {k \in 1..Len(calls) : calls[k].op = "multires"}

NoCallRuns == ~mr.active /\ st.op = "none" /\ an.op = "none"

call_multires ==
    /\ NoCallRuns
    /\ Cardinality(MultiresCalls) < MaxRuns
    /\ \E vs \in RunVarLists, levels \in 1..MaxLevels :
          /\ mr' = [IdleMr EXCEPT !.active = TRUE, !.vars = vs, !.levels = levels,
                                  !.end = Some(RunCols), !.vi = 1, !.pc = "var"]
          /\ calls' = Append(calls, [op |-> "multires", vars |-> vs,
                                     levels |-> levels, end |-> Some(RunCols)])
    /\ err' = ""
    /\ UNCHANGED <<coords, an, data, cfg, roots, fs, lp, leveldirs, st>>

call_multires_predict ==
    /\ NoCallRuns
    /\ Len(calls) <= MaxRuns
    /\ \E vs \in RunVarLists :
          /\ an' = [op |-> "multires_predict", vars |-> vs, idx |-> 1]
          /\ calls' = Append(calls, [op |-> "multires_predict", vars |-> vs])
    /\ err' = ""
    /\ UNCHANGED <<coords, data, cfg, roots, fs, lp, leveldirs, mr, st>>

\* one pass of the loop over the variables: the levels are discovered,
\* their level_prediction tables read and summed, x.pkl and y.pkl copied
\* from level_0/0 to every level_{L}, and {var}/prediction written
multires_predict_var ==
    /\ an.op = "multires_predict"
    /\ LET var    == an.vars[an.idx]
           levels == DiscoverLevels
       IN  IF \E L \in 0..(levels - 1) : lp[L][var] = None
           THEN Raise("NotFound") /\ an' = IdleAn /\ UNCHANGED fs
           ELSE IF levels = 0
           THEN Raise("IndexError") /\ an' = IdleAn /\ UNCHANGED fs
           ELSE IF ~({"x", "y"} \subseteq coords[SegDir(0, 0)])
           THEN Raise("NotFound") /\ an' = IdleAn /\ UNCHANGED fs
           ELSE /\ fs' = Put(fs, MrRoot, var, "prediction",
                             Matrix(lp[0][var][1].rows, SumPredictions(var, levels)))
                /\ an' = IF an.idx < Len(an.vars)
                         THEN [an EXCEPT !.idx = an.idx + 1] ELSE IdleAn
                /\ UNCHANGED <<mr, st, err>>
    /\ UNCHANGED <<coords, data, cfg, roots, lp, leveldirs, calls>>

\* the coordinate side-files the dataset directory may hold
CoordSets == {{}, {"y", "z"}, {"x", "y"}, {"x", "y", "z"}}

\* the dataset of v with r spatial points
RowsDataset(r, v, n) == [Dataset(v, n) EXCEPT !.rows = r]

InitRuns ==
    /\ \E r \in 1..NumRows : data = [v \in Vars |-> RowsDataset(r, v, RunCols)]
    /\ cfg = NoCfg
    /\ fs = [d \in Dirs |-> EmptyDir]
    /\ lp = [L \in 0..(MaxLevels - 1) |-> [v \in Vars |-> None]]
    /\ leveldirs = {}
    /\ mr = IdleMr
    /\ st = IdleSt
    /\ roots = [pod |-> PodRoot, dmd |-> DmdRoot]
    /\ calls = <<>>
    /\ err = ""
    /\ an = IdleAn
    /\ \E c \in CoordSets : coords = [NoCoords EXCEPT ![DataDir] = c]

NextRuns ==
    \/ call_multires \/ call_multires_predict \/ multires_predict_var
    \/ multires_var \/ multires_level
    \/ multires_call_svd \/ multires_call_Atilde \/ multires_call_modes
    \/ multires_filter_b \/ multires_filter_lambda
    \/ multires_write_real_2 \/ multires_write_imag_2
    \/ multires_rm_real \/ multires_rm_imag
    \/ multires_mv_real \/ multires_mv_imag
    \/ multires_call_prediction \/ multires_next_segment \/ multires_level_end
    \/ StageStep

SpecRuns == InitRuns /\ [][NextRuns]_vars

-----------------------------------------------------------------------------
(* Properties of multires_predict (SpecRuns) *)

\* the variable multires_predict is at
PredictVar == an.vars[an.idx]
\* multires_predict finds every level_prediction it is going to read
LevelsReadable ==
    /\ an.op = "multires_predict"
    /\ DiscoverLevels >= 1
    /\ \A L \in 0..(DiscoverLevels - 1) : lp[L][PredictVar] # None

\* C23: when the level predictions it reads exist, multires_predict writes
\* their sum as {var}/prediction, whether or not level_0/0 holds the
\* coordinate files x.pkl and y.pkl.
C23_PredictNeedsNoCoordinates ==
    [][LevelsReadable =>
          fs'[MrRoot][PredictVar]["prediction"] =
              Some(Matrix(lp[0][PredictVar][1].rows,
                          SumPredictions(PredictVar, DiscoverLevels)))]_vars

-----------------------------------------------------------------------------
(* One multires call on one variable of a dataset of any number of rows *)

InitRows ==
    /\ \E r \in 1..NumRows : data = [v \in Vars |-> RowsDataset(r, v, RunCols)]
    /\ cfg = NoCfg
    /\ fs = [d \in Dirs |-> EmptyDir]
    /\ lp = [L \in 0..(MaxLevels - 1) |-> [v \in Vars |-> None]]
    /\ leveldirs = {}
    /\ \E vs \in RunVarLists, levels \in 1..MaxLevels :
          /\ mr = [IdleMr EXCEPT !.active = TRUE, !.vars = vs, !.levels = levels,
                                 !.end = Some(RunCols), !.vi = 1, !.pc = "var"]
          /\ calls = <<[op |-> "multires", vars |-> vs, levels |-> levels,
                        end |-> Some(RunCols)]>>
    /\ st = IdleSt
    /\ roots = [pod |-> PodRoot, dmd |-> DmdRoot]
    /\ err = ""
    /\ an = IdleAn
    /\ coords = NoCoords

NextRows ==
    \/ multires_var \/ multires_level
    \/ multires_call_svd \/ multires_call_Atilde \/ multires_call_modes
    \/ multires_filter_b \/ multires_filter_lambda
    \/ multires_write_real_2 \/ multires_write_imag_2
    \/ multires_rm_real \/ multires_rm_imag
    \/ multires_mv_real \/ multires_mv_imag
    \/ multires_call_prediction \/ multires_next_segment \/ multires_level_end
    \/ StageStep

SpecRows == InitRows /\ [][NextRows]_vars

-----------------------------------------------------------------------------
(* Properties of the slow-mode filter *)

\* every segment of the level multires is at has been decomposed, filtered
\* and predicted
LevelFiltered ==
    /\ mr.active /\ mr.pc = "next" /\ st.op = "none"
    /\ mr.i + 1 = Pow2(mr.level)
\* the modes the filter left in lambda.pkl over all segments of level L
Retained(L) ==
    SumSeq([j \in 1..Pow2(L) |-> Len(Get(SegDir(L, j - 1), MrVar, "lambda"))])
\* the modes of the decomposition of one segment of the given length
ModesPerSegment(rows, length) == Min(rows, Max(length - 1, 0))

\* C24 (as claimed): at a level L >= 1 the filter retains, over all
\* segments, at most (segments of level L-1) times (modes per segment of
\* level L-1) modes.
C24_RetainedWithinPreviousLevel ==
    (LevelFiltered /\ mr.level >= 1) =>
        Retained(mr.level) <=
            Pow2(mr.level - 1)
              * ModesPerSegment(mr.df.rows, NCols(mr.df) \div Pow2(mr.level - 1))

\* C24 (amended): at every level L the filter retains, over all segments,
\* at most (segments of level L) times (modes per segment of level L)
\* modes, a segment of n columns and r spatial points having
\* min(r, n - 1) modes.
C24_RetainedWithinOwnLevel ==
    LevelFiltered =>
        Retained(mr.level) <=
            Pow2(mr.level) * ModesPerSegment(mr.df.rows, mr.slice_size)

\* C24 witness: a level L >= 1 is filtered and every mode of every segment
\* was retained.
C24_Witness ==
    /\ LevelFiltered /\ mr.level >= 1
    /\ Retained(mr.level) > 0
    /\ Retained(mr.level) = Pow2(mr.level) * ModesPerSegment(mr.df.rows, mr.slice_size)

\* the segment multires is at has been decomposed and filtered, and
\* save_prediction is about to be called on it
SegmentFiltered == mr.active /\ mr.pc = "prediction" /\ st.op = "none"
\* the positions, in order, of the eigenvalues of the segment's unfiltered
\* spectrum that are slow
SlowIndices ==
    SelectSeq([j \in 1..Len(mr.eigs) |-> j],
              LAMBDA j : mr.eigs[j][2] * mr.slice_size < FreqScale)
\* the position in the unfiltered spectrum of each entry of a persisted list
IndexOf(q) == [k \in 1..Len(q) |-> q[k][1]]

\* C25: when multires has filtered a segment of a variable, the persisted
\* b, lambda, modes_real columns and modes_imag columns are the entries of
\* the unfiltered ones at the slow indices, in their original order, so
\* the four have one mode count.
C25_OneIndexSet ==
    SegmentFiltered =>
        /\ IndexOf(Get(MrDir, MrVar, "b")) = SlowIndices
        /\ IndexOf(Get(MrDir, MrVar, "lambda")) = SlowIndices
        /\ Get(MrDir, MrVar, "lambda") = [k \in 1..Len(SlowIndices) |-> mr.eigs[SlowIndices[k]]]
        /\ Get(MrDir, MrVar, "modes_real").cols = SlowIndices
        /\ Get(MrDir, MrVar, "modes_imag").cols = SlowIndices

\* C25 witness: a segment is filtered whose first mode was discarded and
\* whose second mode was kept.
C25_Witness ==
    /\ SegmentFiltered
    /\ SlowIndices = <<2>>
    /\ Len(Get(MrDir, MrVar, "b")) = 1

-----------------------------------------------------------------------------
(* Properties of the one-step-shifted pair (SpecConfigured) *)

\* data_decimate(df, X1=True) and data_decimate(df, X2=True) are the
\* decimated sequence D of df without its last, respectively its first
\* column
ShiftedPair(df) ==
    LET D == data_decimate(df, FALSE, FALSE).cols
        A == data_decimate(df, TRUE, FALSE).cols
        B == data_decimate(df, FALSE, TRUE).cols
    IN  /\ Len(A) = Len(D) - 1 /\ Len(B) = Len(D) - 1
        /\ \A j \in 1..Len(A) : A[j] = D[j] /\ B[j] = D[j + 1]

\* C26: under any cutoff, cut-in and stride settings, svd_save_usv with
\* dmd_X1 factors data_decimate(df, X1=True), which with
\* data_decimate(df, X2=True) forms the one-step-shifted pair of the
\* decimated sequence D: both have len(D) - 1 columns and column j of the
\* second is the successor in D of column j of the first.
C26_ShiftedPair ==
    [][(st.op = "svd" /\ st.pc = "u" /\ st.X1) =>
          /\ ShiftedPair(StDf)
          /\ fs'[st.pod][StVar]["u"] =
                 Some([of |-> data_decimate(StDf, TRUE, FALSE)])]_vars

-----------------------------------------------------------------------------
(* Configuration calls: the decimation setters and Base.set_time *)

MaxDt == 3
MaxT0 == 1

\* set_time(dt, t0): self.dt is dt times the stride configured at the time
\* of the call, or dt when none is; the frame keeps the arguments
set_time ==
    /\ \E dt \in 1..MaxDt, t0 \in 0..MaxT0 :
          /\ cfg' = [cfg EXCEPT !.dt = Some(IF cfg.data_skip # None
                                            THEN dt * cfg.data_skip[1] ELSE dt),
                                !.t0 = Some(t0)]
          /\ an' = [op |-> "set_time", dt |-> dt, t0 |-> t0]
    /\ UNCHANGED <<coords, data, roots, fs, lp, leveldirs, mr, st, calls, err>>

NextTime == set_data_cutin \/ set_data_cutoff \/ set_data_skip \/ set_time

SpecTime == InitAnalysis /\ [][NextTime]_vars

\* C27: once set_time has been called, self.dt is the dt last given times
\* the stride now configured (the dt itself when no stride is), in
\* whatever order set_data_skip and set_time were called.
C27_TimestepOrderIndependent ==
    an.op = "set_time" =>
        cfg.dt = Some(an.dt * (IF cfg.data_skip = None THEN 1 ELSE cfg.data_skip[1]))

-----------------------------------------------------------------------------
(* Properties of the default end (Spec, SpecPrediction) *)

\* C28: multires called without end takes the column count N of the
\* variable's dataset for end: its first step (a cancellation apart) raises
\* nothing and leaves the dataset truncated to N - N mod 2^levels columns
\* to be decomposed.
C28_DefaultEndIsColumnCount ==
    [][(mr.active /\ mr.pc = "var" /\ mr.end = None /\ err' # "Interrupted")
        => /\ err' = "" /\ mr'.active
           /\ mr'.df = Truncate(data[MrVar], NCols(data[MrVar]), mr.levels)]_vars

\* save_prediction, called by the user without end, writes the prediction
\* of its current variable
WritesDefaultPrediction ==
    /\ st.op = "prediction" /\ ~mr.active /\ st.end_arg = None
    /\ st' # st /\ err' = ""

\* C29: in a save_prediction call without end, the prediction written for a
\* variable has one column per time step of that variable's own default
\* forecast length, the column count of its own persisted modes, whichever
\* variables the call processed before it.
C29_DefaultEndPerVariable ==
    [][WritesDefaultPrediction =>
          NCols(fs'[st.dmd][StVar]["prediction"][1]) =
              TimeCount(ModeCount(st.dmd, StVar), st.frame_skip)]_vars

\* the levels argument of the most recent multires call
LastRunLevels ==
    calls[CHOOSE k \in MultiresCalls : \A h \in MultiresCalls : h <= k].levels

\* C30: multires_predict reads and sums the level predictions
\* level_0 .. level_{b-1} of the most recent multires run, b being that
\* run's levels, and no level_prediction of an earlier, deeper run.
C30_SumsMostRecentRun ==
    [][(/\ an.op = "multires_predict" /\ MultiresCalls # {}
        /\ an' # an /\ err' = "") =>
          /\ DiscoverLevels = LastRunLevels
          /\ fs'[MrRoot][PredictVar]["prediction"] =
                Some(Matrix(lp[0][PredictVar][1].rows,
                            SumPredictions(PredictVar, LastRunLevels)))]_vars

====
